---- MODULE Spec2Model ----
(***************************************************************************)
(* Model of the `env!` inline macro of crates/env_macro/src/lib.rs.        *)
(*                                                                         *)
(* One expansion is modelled as the run of `env` over one invocation:      *)
(* the argument list is obtained from the parsed inline macro, the arity   *)
(* is checked, the variable name is extracted from the first clause, the   *)
(* process environment is read once, the value (or the default literal) is *)
(* converted through BigInt, and the Result is packed in a ProcMacroResult.*)
(* Text is modelled by TLA+ strings; BigInt parsing and printing are       *)
(* computed digit by digit.                                                *)
(***************************************************************************)
EXTENDS Integers, Sequences, FiniteSets, TLC

VARIABLES token_stream, pc, macro_args, env_var_name, var_result, lookups,
          result, out

vars == <<token_stream, pc, macro_args, env_var_name, var_result, lookups,
          result, out>>

(***************************************************************************)
(* Bounds of the model.                                                    *)
(***************************************************************************)
\* Longest argument list written in an invocation.
MaxArgs == 3
\* Longest text of an environment variable's value.
MaxLen == 2

(***************************************************************************)
(* Text helpers.                                                           *)
(***************************************************************************)
CharAt(s, i) == SubSeq(s, i, i)

StartsWith(s, p) == Len(s) >= Len(p) /\ SubSeq(s, 1, Len(p)) = p

\* str::strip_prefix, applied where the prefix is known to be present.
StripPrefix(s, p) == SubSeq(s, Len(p) + 1, Len(s))

Contains(s, p) ==
    \E i \in 1..(Len(s) - Len(p) + 1) : SubSeq(s, i, i + Len(p) - 1) = p

\* Option<T>
None == [some |-> FALSE]
Some(x) == [some |-> TRUE, v |-> x]

\* Index of the last occurrence of the one-character text c in s, 0 if none.
RECURSIVE LastIndexOf(_, _, _)
LastIndexOf(s, c, i) ==
    IF i = 0 THEN 0
    ELSE IF CharAt(s, i) = c THEN i ELSE LastIndexOf(s, c, i - 1)

\* All texts over alphabet A of length at most n.
RECURSIVE TextsUpTo(_, _)
TextsUpTo(A, n) ==
    IF n = 0 THEN {""}
    ELSE LET shorter == TextsUpTo(A, n - 1)
         IN  shorter \cup {t \o c : t \in shorter, c \in A}

(***************************************************************************)
(* num_bigint: BigInt::from_str_radix, BigInt::from_str, to_string.        *)
(***************************************************************************)
LowerDigits == "0123456789abcdefghijklmnopqrstuvwxyz"
UpperDigits == "0123456789ABCDEFGHIJKLMNOPQRSTUVWXYZ"

\* Value of one character as a digit: 0..35, 36 for '_' (skipped by the
\* parser), 255 for any other character.
DigitOf(c) ==
    IF c = "_" THEN 36
    ELSE IF \E k \in 1..36 : CharAt(LowerDigits, k) = c
         THEN (CHOOSE k \in 1..36 : CharAt(LowerDigits, k) = c) - 1
    ELSE IF \E k \in 1..36 : CharAt(UpperDigits, k) = c
         THEN (CHOOSE k \in 1..36 : CharAt(UpperDigits, k) = c) - 1
    ELSE 255

\* The digit loop of BigUint::from_str_radix: underscores are skipped, a
\* character that is not a digit of the radix is an error.
RECURSIVE DigitsValue(_, _, _, _)
DigitsValue(s, radix, i, acc) ==
    IF i > Len(s) THEN Some(acc)
    ELSE LET d == DigitOf(CharAt(s, i))
         IN  IF d = 36 THEN DigitsValue(s, radix, i + 1, acc)
             ELSE IF d < radix
                  THEN DigitsValue(s, radix, i + 1, acc * radix + d)
                  ELSE None

\* BigUint::from_str_radix: one leading '+' is dropped unless followed by
\* another '+'; the empty text and a leading '_' are errors.
BigUintFromStrRadix(s, radix) ==
    LET t == IF StartsWith(s, "+") /\ ~StartsWith(StripPrefix(s, "+"), "+")
             THEN StripPrefix(s, "+") ELSE s
    IN  IF t = "" THEN None
        ELSE IF StartsWith(t, "_") THEN None
        ELSE DigitsValue(t, radix, 1, 0)

\* BigInt::from_str_radix: a leading '-' gives the sign; it is dropped
\* unless followed by '+'.
BigIntFromStrRadix(s, radix) ==
    LET minus == StartsWith(s, "-")
        t == IF minus /\ ~StartsWith(StripPrefix(s, "-"), "+")
             THEN StripPrefix(s, "-") ELSE s
        bu == BigUintFromStrRadix(t, radix)
    IN  IF ~bu.some THEN None
        ELSE IF minus THEN Some(0 - bu.v) ELSE bu

\* <BigInt as FromStr>::from_str
BigIntFromStr(s) == BigIntFromStrRadix(s, 10)

RECURSIVE MagnitudeToString(_)
MagnitudeToString(n) ==
    IF n < 10 THEN CharAt(LowerDigits, n + 1)
    ELSE MagnitudeToString(n \div 10) \o CharAt(LowerDigits, (n % 10) + 1)

\* <BigInt as ToString>::to_string
BigIntToString(n) ==
    IF n < 0 THEN "-" \o MagnitudeToString(0 - n) ELSE MagnitudeToString(n)

(***************************************************************************)
(* cairo_lang_syntax: the parsed argument list and its terminals.          *)
(***************************************************************************)
\* Expr variants. Path stands for every expression that is neither a string
\* nor a numeric literal (an identifier, a unary minus, a call, ...).
ExprString(text) == [expr |-> "String", text |-> text]
ExprLiteral(text) == [expr |-> "Literal", text |-> text]
ExprPath(text) == [expr |-> "Path", text |-> text]

\* ArgClause variants.
Unnamed(value) == [clause |-> "Unnamed", value |-> value]
Named(value) == [clause |-> "Named", name |-> "k", value |-> value]
FieldInitShorthand == [clause |-> "FieldInitShorthand", name |-> "k"]

\* The escape loop of TerminalString::string_value: a backslash followed by
\* one of \ " n t is decoded, any other escape makes the whole decoding fail.
RECURSIVE Unescape(_, _, _)
Unescape(s, i, acc) ==
    IF i > Len(s) THEN Some(acc)
    ELSE IF CharAt(s, i) # "\\" THEN Unescape(s, i + 1, acc \o CharAt(s, i))
    ELSE IF i = Len(s) THEN None
    ELSE LET n == CharAt(s, i + 1)
         IN  IF n = "\\" THEN Unescape(s, i + 2, acc \o "\\")
             ELSE IF n = "\"" THEN Unescape(s, i + 2, acc \o "\"")
             ELSE IF n = "n" THEN Unescape(s, i + 2, acc \o "\n")
             ELSE IF n = "t" THEN Unescape(s, i + 2, acc \o "\t")
             ELSE None

\* TerminalString::string_value: the text between the quotes, unescaped.
string_value(base_lit) ==
    Unescape(SubSeq(base_lit.text, 2, Len(base_lit.text) - 1), 1, "")

\* TerminalLiteralNumber::numeric_value: a 0x / 0o / 0b prefix selects the
\* radix; the text is read whole if it is a number of that radix, otherwise
\* up to the last '_' (the type suffix).
numeric_value(base_lit) ==
    LET text == base_lit.text
        radix == IF StartsWith(text, "0x") THEN 16
                 ELSE IF StartsWith(text, "0o") THEN 8
                 ELSE IF StartsWith(text, "0b") THEN 2
                 ELSE 10
        body == IF radix = 10 THEN text ELSE SubSeq(text, 3, Len(text))
        whole == BigIntFromStrRadix(body, radix)
        cut == LastIndexOf(body, "_", Len(body))
    IN  IF whole.some THEN whole
        ELSE IF cut = 0 THEN None
        ELSE BigIntFromStrRadix(SubSeq(body, 1, cut - 1), radix)

(***************************************************************************)
(* cairo_lang_macro: TokenStream, Diagnostic, ProcMacroResult.             *)
(***************************************************************************)
TokenStreamNew(s) == s
TokenStreamEmpty == ""

DiagnosticError(message) == [severity |-> "error", message |-> message]

ProcMacroResultNew(ts) == [token_stream |-> ts, diagnostics |-> <<>>]
WithDiagnostics(r, d) == [r EXCEPT !.diagnostics = <<d>>]

\* Result<T, Diagnostic>
Ok(x) == [tag |-> "Ok", v |-> x]
Err(d) == [tag |-> "Err", e |-> d]
Pending == [tag |-> "Pending"]

(***************************************************************************)
(* The inputs: invocations and outcomes of std::env::var.                  *)
(***************************************************************************)
StringTexts == {"\"V\"", "\"W\\\\\"", "\"\\q\""}
LiteralTexts == {"42", "007", "0x1F", "7_u8", "0x"}

Exprs == {ExprString(t) : t \in StringTexts}
            \cup {ExprLiteral(t) : t \in LiteralTexts}
            \cup {ExprPath("x")}

ArgClauses == {Unnamed(e) : e \in Exprs} \cup {Named(e) : e \in Exprs}
                 \cup {FieldInitShorthand}

\* Clauses written after the second one; the code reads only the first two
\* clauses and the length of the list.
ExtraClauses == {Unnamed(ExprPath("x")), Unnamed(ExprLiteral("42"))}

ArgLists ==
    UNION {{a \in [1..n -> ArgClauses] :
               \A i \in 3..n : a[i] \in ExtraClauses} : n \in 0..MaxArgs}

\* The delimiters the argument list is written in: env!(..), env![..], env!{..}
WrappedArgLists == {"ParenthesizedArgList", "BracketedArgList", "BracedArgList"}

Invocations == [wrapped : WrappedArgLists, arguments : ArgLists]

EnvAlphabet == {"0", "7", "-", "+", "_", "a", " "}
EnvValues == TextsUpTo(EnvAlphabet, MaxLen)

\* Result<String, VarError> of std::env::var
VarOk(val) == [tag |-> "Ok", val |-> val]
NotPresent == [tag |-> "NotPresent"]
NotUnicode == [tag |-> "NotUnicode"]
VarResults == {VarOk(val) : val \in EnvValues} \cup {NotPresent, NotUnicode}

(***************************************************************************)
(* crates/env_macro/src/lib.rs                                             *)
(***************************************************************************)
\* Variant of get_env_variable_name: the literal's source text, quotes
\* included, is taken as the name instead of its decoded value.
get_env_variable_name_raw(arg_clause) ==
    IF arg_clause.clause # "Unnamed"
    THEN Err(DiagnosticError("Expected unnamed argument"))
    ELSE LET base_expr == arg_clause.value
         IN  IF base_expr.expr = "String"
             THEN IF string_value(base_expr).some THEN Ok(base_expr.text)
                  ELSE Err(DiagnosticError(
                           "Failed to parse environment variable name"))
             ELSE Err(DiagnosticError("Expected environment variable name"))

\* Variant of get_env_variable_name: the variant of the expression is not
\* checked, any unnamed expression gives a name.
get_env_variable_name_untyped(arg_clause) ==
    IF arg_clause.clause # "Unnamed"
    THEN Err(DiagnosticError("Expected unnamed argument"))
    ELSE LET base_expr == arg_clause.value
         IN  IF base_expr.expr = "String" /\ ~string_value(base_expr).some
             THEN Err(DiagnosticError(
                      "Failed to parse environment variable name"))
             ELSE IF base_expr.expr = "String" THEN Ok(string_value(base_expr).v)
             ELSE Ok(base_expr.text)

\* get_env_variable_name: the name held by the first clause.
get_env_variable_name(arg_clause) ==
    IF arg_clause.clause # "Unnamed"
    THEN Err(DiagnosticError("Expected unnamed argument"))
    ELSE LET base_expr == arg_clause.value
         IN  IF base_expr.expr = "String"
             THEN LET name == string_value(base_expr)
                  IN  IF name.some THEN Ok(name.v)
                      ELSE Err(DiagnosticError(
                               "Failed to parse environment variable name"))
             ELSE Err(DiagnosticError("Expected environment variable name"))

\* Variant of get_default_value: the literal's text is emitted as written
\* instead of the printed BigInt.
get_default_value_verbatim(arg_clause) ==
    IF arg_clause.clause # "Unnamed"
    THEN Err(DiagnosticError("Expected unnamed default argument"))
    ELSE LET base_expr == arg_clause.value
         IN  IF base_expr.expr = "Literal"
             THEN IF numeric_value(base_expr).some
                  THEN Ok(TokenStreamNew(base_expr.text))
                  ELSE Err(DiagnosticError("Failed to parse numeric default"))
             ELSE Err(DiagnosticError("Expected numeric default"))

\* get_default_value: the tokens of the default held by the second clause.
get_default_value(arg_clause) ==
    IF arg_clause.clause # "Unnamed"
    THEN Err(DiagnosticError("Expected unnamed default argument"))
    ELSE LET base_expr == arg_clause.value
         IN  IF base_expr.expr = "Literal"
             THEN LET numeric_val == numeric_value(base_expr)
                  IN  IF numeric_val.some
                      THEN Ok(TokenStreamNew(BigIntToString(numeric_val.v)))
                      ELSE Err(DiagnosticError("Failed to parse numeric default"))
             ELSE Err(DiagnosticError("Expected numeric default"))

\* expand_env_macro, the argument list of the parsed macro: the elements of
\* a parenthesized list, nothing for any other delimiter.
MacroArgs(mac) ==
    IF mac.wrapped = "ParenthesizedArgList" THEN mac.arguments ELSE <<>>

\* Variant of ExpandFound: the environment text is emitted as read once it
\* has parsed, instead of the printed BigInt.
ExpandFoundVerbatim(val) ==
    IF BigIntFromStr(val).some
    THEN Ok(TokenStreamNew(val))
    ELSE Err(DiagnosticError(
             "Failed to parse numeric environment variable: " \o val))

\* expand_env_macro, the arm Ok(val) of the match on std::env::var.
ExpandFound(val) ==
    LET numeric_val == BigIntFromStr(val)
    IN  IF numeric_val.some
        THEN Ok(TokenStreamNew(BigIntToString(numeric_val.v)))
        ELSE Err(DiagnosticError(
                 "Failed to parse numeric environment variable: " \o val))

\* Variant of ExpandMissing: the default is never consulted.
ExpandMissingIgnoresDefault(args, name) ==
    Err(DiagnosticError("Environment variable " \o name \o " not set"))

\* expand_env_macro, the arm Err(_) of the match on std::env::var.
ExpandMissing(args, name) ==
    IF Len(args) = 2
    THEN get_default_value(args[2])
    ELSE Err(DiagnosticError("Environment variable " \o name \o " not set"))

\* Variant of MatchVar: a value that does not parse falls back to the arm
\* of the missing variable, so to the default when there is one.
MatchVarFallsBack(var, args, name) ==
    IF var.tag = "Ok" /\ BigIntFromStr(var.val).some
    THEN ExpandFound(var.val)
    ELSE ExpandMissing(args, name)

\* expand_env_macro, the match on std::env::var(&env_var_name): NotPresent
\* and NotUnicode both take the arm Err(_).
MatchVar(var, args, name) ==
    IF var.tag = "Ok" THEN ExpandFound(var.val) ELSE ExpandMissing(args, name)

\* Variant of EnvResult: the diagnostic of an Err is not attached.
EnvResultDropsDiagnostic(r) ==
    IF r.tag = "Ok"
    THEN ProcMacroResultNew(r.v)
    ELSE ProcMacroResultNew(TokenStreamEmpty)

\* env: the Result packed as a ProcMacroResult.
EnvResult(r) ==
    IF r.tag = "Ok"
    THEN ProcMacroResultNew(r.v)
    ELSE WithDiagnostics(ProcMacroResultNew(TokenStreamEmpty), r.e)

Unread == [tag |-> "Unread"]

Init ==
    /\ token_stream \in Invocations
    /\ pc = "parse"
    /\ macro_args = <<>>
    /\ env_var_name = None
    /\ var_result = Unread
    /\ lookups = 0
    /\ result = Pending
    /\ out = Pending

\* lines 40-47: parse the invocation and take its argument list. Text that
\* does not parse as an inline macro makes parse_inline_macro panic (lines
\* 98-104): no result is returned, and such text is not among Invocations.
ParseArguments ==
    /\ pc = "parse"
    /\ macro_args' = MacroArgs(token_stream)
    /\ pc' = "arity"
    /\ UNCHANGED <<token_stream, env_var_name, var_result, lookups, result, out>>

\* Variant of CheckArity: the environment is read before the empty argument
\* list is reported.
CheckArityAfterRead ==
    /\ pc = "arity"
    /\ IF Len(macro_args) = 0
       THEN /\ result' = Err(DiagnosticError(
                             "Please specify the environment variable name"))
            /\ \E r \in VarResults : var_result' = r
            /\ lookups' = lookups + 1
            /\ pc' = "return"
       ELSE /\ result' = result
            /\ UNCHANGED <<var_result, lookups>>
            /\ pc' = "name"
    /\ UNCHANGED <<token_stream, macro_args, env_var_name, out>>

\* lines 49-51: an empty argument list is an error.
CheckArity ==
    /\ pc = "arity"
    /\ IF Len(macro_args) = 0
       THEN /\ result' = Err(DiagnosticError(
                             "Please specify the environment variable name"))
            /\ pc' = "return"
       ELSE /\ result' = result
            /\ pc' = "name"
    /\ UNCHANGED <<token_stream, macro_args, env_var_name, var_result, lookups, out>>

\* line 53: the name from the first clause; `?` returns its error.
ExtractName ==
    /\ pc = "name"
    /\ LET r == get_env_variable_name(macro_args[1])
       IN  IF r.tag = "Ok"
           THEN /\ env_var_name' = Some(r.v)
                /\ result' = result
                /\ pc' = "lookup"
           ELSE /\ env_var_name' = env_var_name
                /\ result' = r
                /\ pc' = "return"
    /\ UNCHANGED <<token_stream, macro_args, var_result, lookups, out>>

\* line 55: std::env::var(&env_var_name), one read of the process environment.
ReadEnvironment ==
    /\ pc = "lookup"
    /\ \E r \in VarResults : var_result' = r
    /\ lookups' = lookups + 1
    /\ pc' = "match"
    /\ UNCHANGED <<token_stream, macro_args, env_var_name, result, out>>

\* lines 55-76: the two arms of the match.
Resolve ==
    /\ pc = "match"
    /\ result' = MatchVar(var_result, macro_args, env_var_name.v)
    /\ pc' = "return"
    /\ UNCHANGED <<token_stream, macro_args, env_var_name, var_result, lookups, out>>

\* lines 26-33: env returns the ProcMacroResult.
Return ==
    /\ pc = "return"
    /\ out' = EnvResult(result)
    /\ pc' = "done"
    /\ UNCHANGED <<token_stream, macro_args, env_var_name, var_result, lookups, result>>

Next ==
    \/ ParseArguments
    \/ CheckArity
    \/ ExtractName
    \/ ReadEnvironment
    \/ Resolve
    \/ Return

Spec == Init /\ [][Next]_vars

TypeOK ==
    /\ token_stream \in Invocations
    /\ pc \in {"parse", "arity", "name", "lookup", "match", "return", "done"}
    /\ lookups \in 0..1
    /\ var_result \in VarResults \cup {Unread}
    /\ result.tag \in {"Pending", "Ok", "Err"}

(***************************************************************************)
(* Vocabulary of the properties, defined apart from the operators above.   *)
(***************************************************************************)
DecimalDigits == "0123456789"

IsDecimalDigit(c) == \E k \in 1..10 : CharAt(DecimalDigits, k) = c

DecimalDigitValue(c) == (CHOOSE k \in 1..10 : CharAt(DecimalDigits, k) = c) - 1

IsSign(c) == c = "+" \/ c = "-"

\* The text after an optional leading sign.
Unsigned(s) == IF s # "" /\ IsSign(CharAt(s, 1)) THEN SubSeq(s, 2, Len(s)) ELSE s

\* Valid base-10 integer text: an optional sign, then one or more digits.
IsDecimalText(s) ==
    /\ Unsigned(s) # ""
    /\ \A i \in 1..Len(Unsigned(s)) : IsDecimalDigit(CharAt(Unsigned(s), i))

\* An optional sign, a digit, then digits and underscores.
IsSeparatedDecimalText(s) ==
    /\ Unsigned(s) # ""
    /\ IsDecimalDigit(CharAt(Unsigned(s), 1))
    /\ \A i \in 1..Len(Unsigned(s)) :
           IsDecimalDigit(CharAt(Unsigned(s), i)) \/ CharAt(Unsigned(s), i) = "_"

\* The integer a valid base-10 integer text denotes.
RECURSIVE DecimalMagnitude(_)
DecimalMagnitude(s) ==
    IF s = "" THEN 0
    ELSE 10 * DecimalMagnitude(SubSeq(s, 1, Len(s) - 1))
            + DecimalDigitValue(CharAt(s, Len(s)))

DecimalValue(s) ==
    IF StartsWith(s, "-") THEN 0 - DecimalMagnitude(Unsigned(s))
    ELSE DecimalMagnitude(Unsigned(s))

\* A canonical numeral: "0", or an optional '-' and digits not starting with 0.
IsCanonicalNumeral(s) ==
    /\ IsDecimalText(s)
    /\ ~StartsWith(s, "+")
    /\ \/ s = "0"
       \/ ~StartsWith(Unsigned(s), "0")

Returned == pc = "done"

Success == Returned /\ out.token_stream # "" /\ out.diagnostics = <<>>

Failure ==
    /\ Returned
    /\ out.token_stream = ""
    /\ Len(out.diagnostics) = 1
    /\ out.diagnostics[1].severity = "error"

FailureWith(message) == Failure /\ out.diagnostics[1].message = message

ClauseCount == Len(macro_args)

\* The clause is an unnamed string literal / an unnamed numeric literal.
IsUnnamedString(c) == c.clause = "Unnamed" /\ c.value.expr = "String"
IsUnnamedLiteral(c) == c.clause = "Unnamed" /\ c.value.expr = "Literal"

\* The first clause is a string literal that names a variable.
NamesVariable ==
    /\ ClauseCount >= 1
    /\ IsUnnamedString(macro_args[1])
    /\ string_value(macro_args[1].value).some

VariableName == string_value(macro_args[1].value).v

VariableSet == var_result.tag = "Ok"

\* No default, or a numeric literal as the default.
NoDefaultOrNumericDefault ==
    \/ ClauseCount = 1
    \/ ClauseCount = 2 /\ IsUnnamedLiteral(macro_args[2])

(***************************************************************************)
(* C1: every invocation of env that returns gives either a non-empty token *)
(* sequence with no diagnostic, or an empty token sequence with exactly    *)
(* one diagnostic of severity error.                                       *)
(***************************************************************************)
C1_ValidPairing == Returned => (Success \/ Failure)

C1_Witness == Failure /\ ClauseCount = 2 /\ var_result = NotPresent

(***************************************************************************)
(* C2: when the first argument names a variable set to valid base-10       *)
(* integer text, the outcome is Success and the output is the numeral of   *)
(* the environment value, with no default and with a numeric default.      *)
(***************************************************************************)
C2_EnvironmentValueEmitted ==
    (Returned /\ NamesVariable /\ NoDefaultOrNumericDefault
        /\ VariableSet /\ IsDecimalText(var_result.val))
    => /\ Success
       /\ IsCanonicalNumeral(out.token_stream)
       /\ DecimalValue(out.token_stream) = DecimalValue(var_result.val)

C2_Witness ==
    /\ Success
    /\ ClauseCount = 2
    /\ macro_args[2] = Unnamed(ExprLiteral("42"))
    /\ var_result = VarOk("07")
    /\ out.token_stream = "7"

(***************************************************************************)
(* C3, as stated: with the variable not set and exactly two clauses whose  *)
(* second is an unnamed numeric literal, the outcome is Success and the    *)
(* output is the decimal numeral of the default literal.                   *)
(***************************************************************************)
C3_AnyNumericLiteralDefault ==
    (Returned /\ NamesVariable /\ var_result = NotPresent
        /\ ClauseCount = 2 /\ IsUnnamedLiteral(macro_args[2]))
    => /\ Success
       /\ IsCanonicalNumeral(out.token_stream)
       /\ DecimalValue(out.token_stream) = numeric_value(macro_args[2].value).v

(***************************************************************************)
(* C3, amended: with the variable not set and exactly two clauses whose    *)
(* second is an unnamed numeric literal, the outcome is Success with the   *)
(* canonical decimal numeral of the literal's value when the literal's     *)
(* text reads as a number, and Failure "Failed to parse numeric default"   *)
(* when it does not (as for 0x).                                           *)
(***************************************************************************)
C3_ReadableLiteralDefault ==
    (Returned /\ NamesVariable /\ var_result = NotPresent
        /\ ClauseCount = 2 /\ IsUnnamedLiteral(macro_args[2]))
    => LET value == numeric_value(macro_args[2].value)
       IN  IF value.some
           THEN /\ Success
                /\ IsCanonicalNumeral(out.token_stream)
                /\ DecimalValue(out.token_stream) = value.v
           ELSE FailureWith("Failed to parse numeric default")

C3_Witness ==
    /\ Success
    /\ var_result = NotPresent
    /\ ClauseCount = 2
    /\ macro_args[2] = Unnamed(ExprLiteral("42"))
    /\ out.token_stream = "42"

(***************************************************************************)
(* C4: with exactly one clause, a string literal naming variable N, and N  *)
(* not set, the outcome is Failure with the message                        *)
(* "Environment variable N not set".                                       *)
(***************************************************************************)
C4_NotSetMessage ==
    (Returned /\ NamesVariable /\ ClauseCount = 1 /\ var_result = NotPresent)
    => FailureWith("Environment variable " \o VariableName \o " not set")

C4_Witness ==
    /\ macro_args = <<Unnamed(ExprString("\"W\\\\\""))>>
    /\ var_result = NotPresent
    /\ FailureWith("Environment variable W\\ not set")

(***************************************************************************)
(* C5: an invocation with no argument clause fails at once with the        *)
(* message "Please specify the environment variable name", before the name *)
(* is extracted and before the environment is read.                        *)
(***************************************************************************)
C5_NoArguments ==
    (pc # "parse" /\ ClauseCount = 0)
    => /\ pc \in {"arity", "return", "done"}
       /\ env_var_name = None
       /\ lookups = 0
       /\ var_result = Unread
       /\ pc \in {"return", "done"}
            => /\ result.tag = "Err"
               /\ result.e = DiagnosticError(
                                 "Please specify the environment variable name")
       /\ Returned
            => FailureWith("Please specify the environment variable name")

C5_Witness ==
    /\ token_stream.wrapped = "ParenthesizedArgList"
    /\ token_stream.arguments = <<>>
    /\ FailureWith("Please specify the environment variable name")
    /\ lookups = 0

C7_OneOrTwoClauses == (Returned /\ ClauseCount \notin {1, 2}) => Failure

(***************************************************************************)
(* C8: a second clause that is a named clause or is not a numeric literal  *)
(* yields Failure, whether the variable is set or not.                     *)
(***************************************************************************)
C8_SecondClauseValidated ==
    (Returned /\ ClauseCount >= 2 /\ ~IsUnnamedLiteral(macro_args[2]))
    => Failure

(***************************************************************************)
(* C9: when the first clause is not an unnamed string literal the outcome  *)
(* is Failure, "Expected unnamed argument" for a clause that is not        *)
(* unnamed and "Expected environment variable name" for an expression      *)
(* that is not a string, whatever the environment and the other clauses,   *)
(* and the environment is not read.                                        *)
(***************************************************************************)
C9_FirstClauseRejected ==
    (pc \notin {"parse", "arity"} /\ ClauseCount >= 1
        /\ ~IsUnnamedString(macro_args[1]))
    => LET message == IF macro_args[1].clause # "Unnamed"
                      THEN "Expected unnamed argument"
                      ELSE "Expected environment variable name"
       IN  /\ pc \in {"name", "return", "done"}
           /\ lookups = 0
           /\ var_result = Unread
           /\ pc \in {"return", "done"}
                => result.tag = "Err" /\ result.e = DiagnosticError(message)
           /\ Returned => FailureWith(message)

C9_Witness ==
    /\ ClauseCount = 2
    /\ macro_args[1] = Unnamed(ExprPath("x"))
    /\ FailureWith("Expected environment variable name")
    /\ lookups = 0

(***************************************************************************)
(* C10: every Success output is a canonical base-10 numeral (no leading    *)
(* plus sign, no redundant leading zero); it denotes the same integer as   *)
(* the valid base-10 integer text it was made from, the environment value  *)
(* or the default literal; a canonical numeral is emitted unchanged.       *)
(***************************************************************************)
C10_Normalization ==
    Success
    => /\ IsCanonicalNumeral(out.token_stream)
       /\ (VariableSet /\ IsDecimalText(var_result.val))
            => DecimalValue(out.token_stream) = DecimalValue(var_result.val)
       /\ (VariableSet /\ IsCanonicalNumeral(var_result.val))
            => out.token_stream = var_result.val
       /\ (~VariableSet /\ IsDecimalText(macro_args[2].value.text))
            => DecimalValue(out.token_stream)
                   = DecimalValue(macro_args[2].value.text)
       /\ (~VariableSet /\ IsCanonicalNumeral(macro_args[2].value.text))
            => out.token_stream = macro_args[2].value.text

C10_Witness ==
    /\ Success
    /\ var_result = VarOk("-0")
    /\ out.token_stream = "0"

====
